---- MODULE Spec2Model ----
(***************************************************************************)
(* Model of highfive's installation / rate-limit aware request layer       *)
(* (cgi-bin/helpers/runner.py): InstallationHandler, SyncHandler, Runner.  *)
(*                                                                         *)
(* Time is the epoch clock in seconds.  The clock advances in steps of     *)
(* ClockStep seconds; a sleep(interval) started at clock value n is over   *)
(* no earlier than clock value n + floor(interval).                        *)
(*                                                                         *)
(* Two callers exist: the thread that handles payloads (handle_payload)    *)
(* and the thread that runs the synchronisation loop (start_sync).  Spec   *)
(* runs the payload caller alone; ConcSpec runs both.                      *)
(***************************************************************************)
EXTENDS Integers, Sequences, FiniteSets, TLC

\* ---------------------------------------------------------------- bounds
MaxTime == 3600
ClockStep == 1800
MaxRemaining == 2
NumInstallations == 2
MaxLabelArgs == 1

\* ------------------------------------------------------ program constants
SYNC_HANDLER_SLEEP_SECS == 3600
JwtLifetime == 600
DefaultRemaining == 0
DefaultResetLag == 60
TokenLifetime == 3600
QuotaWindow == 3600

Insts == 1..NumInstallations
Threads == {"payload", "sync"}
SeqThreads == {"payload"}

VARIABLES
    now,            \* time.time() / datetime.now()
    installations,  \* Runner.installations: id -> InstallationHandler fields
    sync_runners,   \* Runner.sync_runners: ids that have a SyncHandler
    config,         \* Runner.config: the persisted dict
    headers,        \* InstallationHandler.headers['Authorization'] (class level)
    task,           \* per thread: position in handle_payload / start_sync
    cur,            \* per thread: installation whose handlers are running
    pc,             \* per thread: position inside queue_request
    frame,          \* per thread: locals of wait_time / queue_request
    round,          \* locals of start_sync: start, ids still to poke, wake
    steps,          \* per thread: what the current queue_request has done
    pre,            \* per thread: handler fields when queue_request was entered
    sent,           \* per thread: the last HTTP request put on the wire
    result,         \* per thread: how the last queue_request ended
    loaded,         \* per installation: the persisted record there was when the
                    \* handler was created, and whether it has been used since
    api             \* an APIProvider over the payload of one issue: its labels
                    \* and what the last update_labels was given and called

vars == <<now, installations, sync_runners, config, headers, task, cur, pc,
          frame, round, steps, pre, sent, result, loaded, api>>

\* ------------------------------------------------------------ value space
NoHandler == [exists |-> FALSE]
NoRec == [present |-> FALSE]
NoToken == [inst |-> 0, exp |-> 0]
NoAuth == [scheme |-> "none", token |-> NoToken, iat |-> 0, exp |-> 0]
NoErr == [type |-> "none", status |-> 0, body |-> "none"]
NoValue == [type |-> "none", json |-> FALSE, data |-> "none"]
NoResp == [code |-> 0, encoding |-> "none", compressed |-> FALSE, json |-> FALSE,
           text |-> "none"]
NoSent == [kind |-> "none", inst |-> 0, auth |-> NoAuth, at |-> 0, code |-> 0]
NoBirth == [saved |-> NoRec, used |-> FALSE]
NoFrame == [now |-> 0, wake |-> 0, num |-> 0, den |-> 1, secs |-> 0]
NoResult == [outcome |-> "none", stage |-> "none", exc |-> NoErr, resp |-> NoResp,
             value |-> NoValue]
NoPre == [token |-> NoToken, next_token_sync |-> 0, remaining |-> 0,
          reset_time |-> 0, saved |-> NoRec, first |-> FALSE, at |-> 0,
          ahead |-> {}]
NoRound == [start |-> 0, todo |-> {}, wake |-> 0, poking |-> {}]
NoImgurResp == [code |-> 0, json |-> FALSE, link |-> "none"]
NoUpload == [done |-> FALSE, requests |-> <<>>, resp |-> NoImgurResp, returned |-> <<>>]
NoApi == [labels |-> {}, calls |-> <<>>, before |-> {}, add |-> {}, remove |-> {},
          built |-> FALSE, imgur_client_id |-> <<>>, payload |-> <<>>,
          attrs |-> <<>>, upload |-> NoUpload, handled |-> <<>>]

\* '%s' % datetime  and  dateutil.parser.parse
DatetimeStr(t) == [iso |-> t]
datetime_parse(s) == s.iso

\* dict.get(key, default) on the top-level keys of Runner.config
ConfigGet(c, key, default) == IF key \in DOMAIN c.keys THEN c.keys[key] ELSE default

\* the record update_config stores for a handler
ConfigRecord(h) ==
    [present |-> TRUE,
     remaining |-> h.remaining,
     expires_at |-> DatetimeStr(h.next_token_sync),
     reset |-> h.reset_time,
     token |-> h.token]

\* a slip of __init__: the default reset time lies ahead instead of behind
NewHandlerResetAhead(c, t) ==
    [exists |-> TRUE,
     remaining |-> ConfigGet(c, "remaining", DefaultRemaining),
     reset_time |-> ConfigGet(c, "reset", t + DefaultResetLag),
     next_token_sync |-> datetime_parse(ConfigGet(c, "expires_at", DatetimeStr(t))),
     token |-> ConfigGet(c, "token", NoToken)]

\* InstallationHandler.__init__
NewHandler(c, t) ==
    [exists |-> TRUE,
     remaining |-> ConfigGet(c, "remaining", DefaultRemaining),
     reset_time |-> ConfigGet(c, "reset", t - DefaultResetLag),
     next_token_sync |-> datetime_parse(ConfigGet(c, "expires_at", DatetimeStr(t))),
     token |-> ConfigGet(c, "token", NoToken)]

\* InstallationHandler.update_config
update_config(c, i, h) == [c EXCEPT !.ids[i] = ConfigRecord(h)]

\* 'Bearer <jwt>' and 'token <token>'
BearerAuth(t) == [scheme |-> "Bearer", token |-> NoToken, iat |-> t, exp |-> t + JwtLifetime]
TokenAuth(tok) == [scheme |-> "token", token |-> tok, iat |-> 0, exp |-> 0]

\* ------------------------------------------------------- HTTP responses
Response(code, enc, compressed, json, text) ==
    [code |-> code, encoding |-> enc, compressed |-> compressed, json |-> json,
     text |-> text]

GenericResponses ==
    { Response(200, "identity", FALSE, TRUE, "ok"),
      Response(200, "identity", FALSE, FALSE, "diff"),
      Response(200, "gzip", TRUE, TRUE, "ok"),
      Response(200, "gzip", FALSE, TRUE, "ok"),
      Response(404, "identity", FALSE, FALSE, "not found") }

ExchangeResponses ==
    { Response(201, "identity", FALSE, TRUE, "token"),
      Response(401, "identity", FALSE, FALSE, "bad credentials") }

RateResponses ==
    { Response(200, "identity", FALSE, TRUE, "rate"),
      Response(500, "identity", FALSE, FALSE, "server error") }

\* slips of the status test: only 5xx, or only below 500, counts as a failure
IsFailureServerOnly(code) == code < 200 \/ code >= 500
IsFailureClientOnly(code) == code < 200 \/ (code >= 300 /\ code < 500)

\* the status test of _request
IsFailure(code) == code < 200 \/ code >= 300

\* the exception _request raises for a failure status
RequestError(resp) == [type |-> "Exception", status |-> 0, body |-> "none"]

\* GzipFile(...).read(): the data when it is a gzip stream, IOError otherwise
\* slip of lines 94-99: the body is never decompressed
GunzipSkipped(resp) == resp

Gunzip(resp) ==
    IF resp.encoding = "gzip" /\ resp.compressed
        THEN [resp EXCEPT !.compressed = FALSE]
        ELSE resp

\* json.loads with the fall back to the raw payload
Decode(resp) ==
    LET data == Gunzip(resp) IN
    IF data.json /\ ~data.compressed
        THEN [type |-> "json", json |-> TRUE, data |-> data.text]
        ELSE [type |-> "str", json |-> data.json, data |-> data.text]

\* ------------------------------------------------------------------ Init
RunnerInit ==
    /\ now = 0
    /\ installations = [i \in Insts |-> NoHandler]
    /\ sync_runners = {}
    /\ config = [keys |-> [k \in {} |-> 0], ids |-> [i \in Insts |-> NoRec]]
    /\ headers = NoAuth
    /\ task = [t \in Threads |-> "none"]
    /\ cur = [t \in Threads |-> 0]
    /\ pc = [t \in Threads |-> "idle"]
    /\ frame = [t \in Threads |-> NoFrame]
    /\ round = NoRound
    /\ steps = [t \in Threads |-> <<>>]
    /\ pre = [t \in Threads |-> NoPre]
    /\ sent = [t \in Threads |-> NoSent]
    /\ result = [t \in Threads |-> NoResult]
    /\ loaded = [i \in Insts |-> NoBirth]

Init ==
    /\ RunnerInit
    /\ api = NoApi


\* ------------------------------------------------------- Runner (registry)
\* Runner.set_installation: dict.setdefault keeps an existing entry
\* slip of line 197: the entry is assigned, not set by default
SetDefaultAssigned(insts, c, t, i) == [insts EXCEPT ![i] = NewHandler(c, t)]

SetDefault(insts, c, t, i) ==
    IF insts[i].exists THEN insts ELSE [insts EXCEPT ![i] = NewHandler(c, t)]

set_installation(ids) ==
    /\ installations' =
         [i \in Insts |-> IF i \in ids THEN SetDefault(installations, config, now, i)[i]
                                       ELSE installations[i]]
    /\ sync_runners' = sync_runners \cup ids
    /\ loaded' = [i \in Insts |-> IF i \in ids /\ ~installations[i].exists
                                      THEN [saved |-> config.ids[i], used |-> FALSE]
                                      ELSE loaded[i]]

\* Runner.handle_payload up to the first handler: the installation is
\* registered, event handlers run for an enabled event not sent by the bot
handle_payload(t, i, enabled, by_self) ==
    /\ t = "payload"
    /\ task[t] = "none"
    /\ pc[t] = "idle"
    /\ set_installation({i})
    /\ cur' = [cur EXCEPT ![t] = i]
    /\ task' = [task EXCEPT ![t] = IF enabled /\ ~by_self THEN "add" ELSE "post"]
    /\ UNCHANGED <<now, config, headers, pc, frame, round, steps, pre, sent, result>>
    /\ UNCHANGED api

\* InstallationHandler.add returns: handle_payload goes on to SyncHandler.post
add_return(t) ==
    /\ task[t] = "add"
    /\ pc[t] = "idle"
    /\ task' = [task EXCEPT ![t] = "post"]
    /\ UNCHANGED <<now, installations, sync_runners, config, headers, cur, pc, frame,
                   round, steps, pre, sent, result, loaded>>
    /\ UNCHANGED api

\* SyncHandler.post returns, to handle_payload, to the loop of start_sync or to
\* the loop of poke_data
post_return(t) ==
    /\ task[t] \in {"post", "poke_post"}
    /\ pc[t] = "idle"
    /\ task' = [task EXCEPT ![t] = IF task[t] = "poke_post" THEN "poking"
                                   ELSE IF t = "sync" THEN "round" ELSE "none"]
    /\ cur' = [cur EXCEPT ![t] = 0]
    /\ UNCHANGED <<now, installations, sync_runners, config, headers, pc, frame,
                   round, steps, pre, sent, result, loaded>>
    /\ UNCHANGED api

\* Runner.start_sync, lines 228-233: every installation of the database is
\* registered and the first round begins
start_sync(t, db) ==
    /\ t = "sync"
    /\ task[t] = "none"
    /\ set_installation(db)
    /\ task' = [task EXCEPT ![t] = "round"]
    /\ round' = [start |-> now, todo |-> sync_runners \cup db, wake |-> 0,
                 poking |-> round.poking]
    /\ UNCHANGED <<now, config, headers, cur, pc, frame, steps, pre, sent, result>>
    /\ UNCHANGED api

\* start_sync, lines 234-237: the next sync runner of the round is poked
poke(t, i) ==
    /\ t = "sync"
    /\ task[t] = "round"
    /\ i \in round.todo
    /\ round' = [round EXCEPT !.todo = @ \ {i}]
    /\ cur' = [cur EXCEPT ![t] = i]
    /\ task' = [task EXCEPT ![t] = "post"]
    /\ UNCHANGED <<now, installations, sync_runners, config, headers, pc, frame, steps,
                   pre, sent, result, loaded>>
    /\ UNCHANGED api

\* Runner.poke_data, lines 218-221: every installation of the database is
\* registered; the sync runners are then poked one after the other
poke_data(t, db) ==
    /\ t = "payload"
    /\ task[t] = "none"
    /\ pc[t] = "idle"
    /\ set_installation(db)
    /\ task' = [task EXCEPT ![t] = "poking"]
    /\ round' = [round EXCEPT !.poking = sync_runners \cup db]
    /\ UNCHANGED <<now, config, headers, cur, pc, frame, steps, pre, sent, result>>
    /\ UNCHANGED api

\* poke_data, lines 223-225: the next sync runner is poked with an empty payload
poke_next(t, i) ==
    /\ task[t] = "poking"
    /\ i \in round.poking
    /\ round' = [round EXCEPT !.poking = @ \ {i}]
    /\ cur' = [cur EXCEPT ![t] = i]
    /\ task' = [task EXCEPT ![t] = "poke_post"]
    /\ UNCHANGED <<now, installations, sync_runners, config, headers, pc, frame, steps,
                   pre, sent, result, loaded>>
    /\ UNCHANGED api

\* poke_data returns once every sync runner was poked
poke_done(t) ==
    /\ task[t] = "poking"
    /\ round.poking = {}
    /\ task' = [task EXCEPT ![t] = "none"]
    /\ UNCHANGED <<now, installations, sync_runners, config, headers, cur, pc, frame,
                   round, steps, pre, sent, result, loaded>>
    /\ UNCHANGED api

\* start_sync, lines 239-242: the sleep between two rounds
RoundInterval(start, end) == SYNC_HANDLER_SLEEP_SECS - (end - start)

round_end(t) ==
    /\ t = "sync"
    /\ task[t] = "round"
    /\ round.todo = {}
    /\ IF RoundInterval(round.start, now) < 0
         THEN /\ task' = [task EXCEPT ![t] = "dead"]
              /\ UNCHANGED round
         ELSE /\ task' = [task EXCEPT ![t] = "round_sleep"]
              /\ round' = [round EXCEPT !.wake = now + RoundInterval(round.start, now)]
    /\ UNCHANGED <<now, installations, sync_runners, config, headers, cur, pc, frame,
                   steps, pre, sent, result, loaded>>
    /\ UNCHANGED api

\* start_sync, lines 232-233: the sleep is over and the next round begins
round_begin(t) ==
    /\ t = "sync"
    /\ task[t] = "round_sleep"
    /\ now >= round.wake
    /\ task' = [task EXCEPT ![t] = "round"]
    /\ round' = [start |-> now, todo |-> sync_runners, wake |-> 0,
                 poking |-> round.poking]
    /\ UNCHANGED <<now, installations, sync_runners, config, headers, cur, pc, frame,
                   steps, pre, sent, result, loaded>>
    /\ UNCHANGED api

\* ------------------------------------------- InstallationHandler.queue_request
Handler(t) == installations[cur[t]]

Log(t, names) == [steps EXCEPT ![t] = steps[t] \o names]

\* an exception leaves queue_request
Raise(t, stage, exc, resp) ==
    /\ pc' = [pc EXCEPT ![t] = "raised"]
    /\ result' = [result EXCEPT ![t] = [outcome |-> "raised", stage |-> stage,
                                        exc |-> exc, resp |-> resp, value |-> NoValue]]

\* the locals of a finished queue_request are gone
Forget(t) ==
    /\ steps' = [steps EXCEPT ![t] = <<>>]
    /\ pre' = [u \in Threads |-> IF u = t THEN NoPre
                                  ELSE [pre[u] EXCEPT !.ahead = @ \ {t}]]
    /\ sent' = [sent EXCEPT ![t] = NoSent]
    /\ result' = [result EXCEPT ![t] = NoResult]
    /\ frame' = [frame EXCEPT ![t] = NoFrame]

\* the exception leaves the handler and its caller: handle_payload is over,
\* poke_data is over with its loop unfinished, start_sync is over for good
propagate(t) ==
    /\ pc[t] = "raised"
    /\ pc' = [pc EXCEPT ![t] = "idle"]
    /\ task' = [task EXCEPT ![t] = IF t = "sync" THEN "dead" ELSE "none"]
    /\ cur' = [cur EXCEPT ![t] = 0]
    /\ round' = IF task[t] = "poke_post" THEN [round EXCEPT !.poking = {}] ELSE round
    /\ Forget(t)
    /\ UNCHANGED <<now, installations, sync_runners, config, headers, loaded>>
    /\ UNCHANGED api

\* the result of queue_request is back in the handler
resume(t) ==
    /\ pc[t] = "returned"
    /\ pc' = [pc EXCEPT ![t] = "idle"]
    /\ Forget(t)
    /\ UNCHANGED <<now, installations, sync_runners, config, headers, task, cur, round,
                   loaded>>
    /\ UNCHANGED api

\* a handler calls queue_request
queue_request(t) ==
    /\ task[t] \in {"add", "post", "poke_post"}
    /\ pc[t] = "idle"
    /\ pc' = [pc EXCEPT ![t] = "sync_token"]
    /\ steps' = [steps EXCEPT ![t] = <<>>]
    /\ pre' = [pre EXCEPT ![t] =
                 [token |-> Handler(t).token,
                  next_token_sync |-> Handler(t).next_token_sync,
                  remaining |-> Handler(t).remaining,
                  reset_time |-> Handler(t).reset_time,
                  saved |-> config.ids[cur[t]],
                  first |-> ~loaded[cur[t]].used,
                  at |-> now,
                  ahead |-> {u \in Threads \ {t} :
                               /\ cur[u] = cur[t]
                               /\ pc[u] \notin {"idle", "returned", "raised"}}]]
    /\ loaded' = [loaded EXCEPT ![cur[t]].used = TRUE]
    /\ UNCHANGED <<now, installations, sync_runners, config, headers, task, cur,
                   frame, round, sent, result>>
    /\ UNCHANGED api

\* sync_token, lines 53-65: the expiry test, and the header of the exchange
\* slip of line 54: the token is exchanged whatever its expiry
TokenExpiredAlways(t, h) == TRUE

TokenExpired(t, h) == t >= h.next_token_sync

sync_token(t) ==
    /\ pc[t] = "sync_token"
    /\ IF TokenExpired(now, Handler(t))
         THEN /\ headers' = BearerAuth(now)
              /\ pc' = [pc EXCEPT ![t] = "exchange"]
              /\ steps' = Log(t, <<"token_check", "sign">>)
         ELSE /\ pc' = [pc EXCEPT ![t] = "wait_time"]
              /\ steps' = Log(t, <<"token_check">>)
              /\ UNCHANGED headers
    /\ UNCHANGED <<now, installations, sync_runners, config, task, cur, frame, round,
                   pre, sent, result, loaded>>
    /\ UNCHANGED api

\* the token the issuance endpoint hands out for an installation
IssuedToken(i, t) == [inst |-> i, exp |-> t + TokenLifetime]

\* what sync_token stores from a successful exchange (lines 66-68)
StoreToken(h, tok) ==
    [h EXCEPT !.token = tok, !.next_token_sync = datetime_parse(DatetimeStr(tok.exp))]

\* sync_token, lines 65-68: the exchange request and its outcome
token_exchange(t, resp) ==
    /\ pc[t] = "exchange"
    /\ sent' = [sent EXCEPT ![t] = [kind |-> "exchange", inst |-> cur[t],
                                    auth |-> headers, at |-> now,
                                    code |-> resp.code]]
    /\ steps' = Log(t, <<"exchange">>)
    /\ IF IsFailure(resp.code)
         THEN /\ Raise(t, "token", RequestError(resp), resp)
              /\ UNCHANGED installations
         ELSE /\ installations' = [installations EXCEPT
                    ![cur[t]] = StoreToken(@, IssuedToken(cur[t], now))]
              /\ pc' = [pc EXCEPT ![t] = "wait_time"]
              /\ UNCHANGED result
    /\ UNCHANGED <<now, sync_runners, config, headers, task, cur, frame, round, pre,
                   loaded>>
    /\ UNCHANGED api

\* wait_time, line 79, and the sleep of queue_request (line 117)
WaitNum(h, t) == h.reset_time - t
\* slip of line 79: the divisor is one more than remaining
WaitDenPlusOne(h) == h.remaining + 1

WaitDen(h) == h.remaining
IsNegative(num, den) == (num < 0 /\ den > 0) \/ (num > 0 /\ den < 0)
Floor(num, den) == IF den < 0 THEN (-num) \div (-den) ELSE num \div den

Paced(h, wnow) == WaitDen(h) # 0 /\ ~IsNegative(WaitNum(h, wnow), WaitDen(h))

Pace(t, h, wnow) ==
    IF WaitDen(h) = 0
      THEN /\ Raise(t, "wait", [type |-> "ZeroDivisionError", status |-> 0,
                                body |-> "none"], NoResp)
           /\ UNCHANGED frame
      ELSE IF IsNegative(WaitNum(h, wnow), WaitDen(h))
        THEN /\ Raise(t, "sleep", [type |-> "IOError", status |-> 0,
                                   body |-> "none"], NoResp)
             /\ UNCHANGED frame
        ELSE /\ frame' = [frame EXCEPT ![t] =
                            [now |-> wnow,
                             num |-> WaitNum(h, wnow), den |-> WaitDen(h),
                             secs |-> Floor(WaitNum(h, wnow), WaitDen(h)),
                             wake |-> now + Floor(WaitNum(h, wnow), WaitDen(h))]]
             /\ pc' = [pc EXCEPT ![t] = "sleep"]
             /\ UNCHANGED result

\* wait_time, lines 71-74: the window test, and the header of the quota fetch
WindowElapsed(t, h) == t >= h.reset_time

wait_time(t) ==
    /\ pc[t] = "wait_time"
    /\ IF WindowElapsed(now, Handler(t))
         THEN /\ headers' = TokenAuth(Handler(t).token)
              /\ frame' = [frame EXCEPT ![t] = [NoFrame EXCEPT !.now = now]]
              /\ pc' = [pc EXCEPT ![t] = "rate_limit"]
              /\ steps' = Log(t, <<"quota_check">>)
              /\ UNCHANGED result
         ELSE /\ Pace(t, Handler(t), now)
              /\ steps' = Log(t, IF Paced(Handler(t), now)
                                   THEN <<"quota_check", "wait">>
                                   ELSE <<"quota_check">>)
              /\ UNCHANGED headers
    /\ UNCHANGED <<now, installations, sync_runners, config, task, cur, round, pre,
                   sent, loaded>>
    /\ UNCHANGED api

\* what wait_time stores from the quota endpoint (lines 75-76)
StoreRate(h, remaining, reset) == [h EXCEPT !.reset_time = reset, !.remaining = remaining]

\* wait_time, lines 74-79: the quota fetch and its outcome
rate_limit(t, resp, remaining, reset) ==
    /\ pc[t] = "rate_limit"
    /\ sent' = [sent EXCEPT ![t] = [kind |-> "rate_limit", inst |-> cur[t],
                                    auth |-> headers, at |-> now,
                                    code |-> resp.code]]
    /\ IF IsFailure(resp.code)
         THEN /\ Raise(t, "quota", RequestError(resp), resp)
              /\ steps' = Log(t, <<"quota_sync">>)
              /\ UNCHANGED <<installations, frame>>
         ELSE /\ installations' = [installations EXCEPT
                    ![cur[t]] = StoreRate(@, remaining, reset)]
              /\ Pace(t, StoreRate(Handler(t), remaining, reset), frame[t].now)
              /\ steps' = Log(t, IF Paced(StoreRate(Handler(t), remaining, reset),
                                          frame[t].now)
                                   THEN <<"quota_sync", "wait">>
                                   ELSE <<"quota_sync">>)
    /\ UNCHANGED <<now, sync_runners, config, headers, task, cur, round, pre, loaded>>
    /\ UNCHANGED api

\* queue_request, lines 118-120 and the header of the call: once the sleep is
\* over, remaining is decremented and the state is persisted
\* slips of lines 118-119: the count is left alone, the record is not written
DecrementSkipped(h) == h
PersistSkipped(c, i, h) == c

\* slip of line 118: the count goes down by two
DecrementTwice(h) == [h EXCEPT !.remaining = @ - 2]

Decrement(h) == [h EXCEPT !.remaining = @ - 1]

Persist(c, i, h) == update_config(c, i, h)

decrement(t) ==
    /\ pc[t] = "sleep"
    /\ now >= frame[t].wake
    /\ installations' = [installations EXCEPT ![cur[t]] = Decrement(@)]
    /\ config' = Persist(config, cur[t], Decrement(Handler(t)))
    /\ headers' = TokenAuth(Handler(t).token)
    /\ pc' = [pc EXCEPT ![t] = "generic"]
    /\ steps' = Log(t, <<"decrement", "persist">>)
    /\ UNCHANGED <<now, sync_runners, task, cur, frame, round, pre, sent, result, loaded>>
    /\ UNCHANGED api

\* queue_request, line 121: the call itself and its outcome
generic(t, resp) ==
    /\ pc[t] = "generic"
    /\ sent' = [sent EXCEPT ![t] = [kind |-> "generic", inst |-> cur[t],
                                    auth |-> headers, at |-> now,
                                    code |-> resp.code]]
    /\ steps' = Log(t, <<"http">>)
    /\ IF IsFailure(resp.code)
         THEN Raise(t, "generic", RequestError(resp), resp)
         ELSE /\ pc' = [pc EXCEPT ![t] = "returned"]
              /\ result' = [result EXCEPT ![t] =
                             [outcome |-> "returned", stage |-> "generic", exc |-> NoErr,
                              resp |-> resp, value |-> Decode(resp)]]
    /\ UNCHANGED <<now, installations, sync_runners, config, headers, task, cur, frame,
                   round, pre, loaded>>
    /\ UNCHANGED api

\* ------------------------------------------------------------ environment
Tick ==
    /\ now + ClockStep <= MaxTime
    /\ now' = now + ClockStep
    /\ UNCHANGED <<installations, sync_runners, config, headers, task, cur, pc, frame,
                   round, steps, pre, sent, result, loaded>>
    /\ UNCHANGED api

\* the process is started again (Runner.__init__): the registry is empty, the
\* persisted dict is what the previous run left
Restart ==
    /\ \A t \in Threads : pc[t] = "idle" /\ task[t] \in {"none", "dead"}
    /\ \E i \in Insts : installations[i].exists
    /\ installations' = [i \in Insts |-> NoHandler]
    /\ sync_runners' = {}
    /\ headers' = NoAuth
    /\ task' = [t \in Threads |-> "none"]
    /\ round' = NoRound
    /\ loaded' = [i \in Insts |-> NoBirth]
    /\ UNCHANGED <<now, config, cur, pc, frame, steps, pre, sent, result>>
    /\ UNCHANGED api

RateRemaining == 0..MaxRemaining
RateWindows == {QuotaWindow}
RateResets(t, windows) == {t + w : w \in windows}

\* the payloads that arrive name an installation of ids; the quota endpoint
\* answers with a remaining of rems and a window of windows
StepEnv(t, ids, rems, windows) ==
    \/ \E i \in ids, enabled \in BOOLEAN, by_self \in BOOLEAN :
          handle_payload(t, i, enabled, by_self)
    \/ add_return(t)
    \/ post_return(t)
    \/ queue_request(t)
    \/ sync_token(t)
    \/ \E resp \in ExchangeResponses : token_exchange(t, resp)
    \/ wait_time(t)
    \/ \E resp \in RateResponses, r \in rems, reset \in RateResets(now, windows) :
          rate_limit(t, resp, r, reset)
    \/ decrement(t)
    \/ \E resp \in GenericResponses : generic(t, resp)
    \/ resume(t)
    \/ propagate(t)

Step(t, ids) == StepEnv(t, ids, RateRemaining, RateWindows)

\* poke_data, called with what db.get_installations() returns
PokeStep(t, db) ==
    \/ \E ids \in SUBSET db : poke_data(t, ids)
    \/ \E i \in Insts : poke_next(t, i)
    \/ poke_done(t)

Next ==
    \/ \E t \in SeqThreads : Step(t, Insts)
    \/ \E t \in SeqThreads : PokeStep(t, Insts)
    \/ Tick
    \/ Restart

Spec == Init /\ [][Next]_vars

\* ------------------------------------------------- APIProvider.update_labels
\* label names as payloads and handlers spell them, and their lower-case forms
LabelNames == {"s-awaiting-review", "S-Tests-Failed", "s-tests-failed",
               "S-needs-rebase", "s-needs-rebase"}

\* label.lower()
to_lower(label) ==
    CASE label = "S-Tests-Failed" -> "s-tests-failed"
      [] label = "FooBar" -> "foobar"
      [] label = "S-awaiting-merge" -> "s-awaiting-merge"
      [] label = "S-tests-failed" -> "s-tests-failed"
      [] label = "S-awaiting-review" -> "s-awaiting-review"
      [] label = "S-needs-code-changes" -> "s-needs-code-changes"
      [] label = "S-needs-squash" -> "s-needs-squash"
      [] label = "S-awaiting-answer" -> "s-awaiting-answer"
      [] label = "S-needs-rebase" -> "s-needs-rebase"
      [] OTHER -> label

\* TestAPIProvider.get_labels and replace_labels
get_labels(a) == a.labels
replace_labels(a, labels) == [a EXCEPT !.labels = labels]

\* slip of line 124: the labels to remove are compared as they are spelt
UpdatedLabelsRawRemove(current, add, remove) ==
    ({to_lower(l) : l \in current} \cup {to_lower(l) : l \in add}) \ remove

\* lines 122-124: the set handed to replace_labels
UpdatedLabels(current, add, remove) ==
    LET current_labels == {to_lower(l) : l \in current}
        updated == current_labels \cup {to_lower(l) : l \in add}
    IN  updated \ {to_lower(l) : l \in remove}

\* the provider after update_labels, with what the call was given and called
LabelsUpdated(a, add, remove) ==
    [replace_labels(a, UpdatedLabels(get_labels(a), add, remove))
       EXCEPT !.calls = <<"get_labels", "replace_labels">>,
              !.before = a.labels,
              !.add = add,
              !.remove = remove]

update_labels(add, remove) ==
    /\ api' = LabelsUpdated(api, add, remove)
    /\ UNCHANGED <<now, installations, sync_runners, config, headers, task, cur, pc,
                   frame, round, steps, pre, sent, result, loaded>>

\* the lists a handler passes as add and as remove
LabelArgs == {ls \in SUBSET LabelNames : Cardinality(ls) <= MaxLabelArgs}

\* an APIProvider over a payload whose issue carries any of the labels
LabelInit ==
    /\ RunnerInit
    /\ api \in {[NoApi EXCEPT !.labels = ls] : ls \in SUBSET LabelNames}

LabelNext == \E add \in LabelArgs, remove \in LabelArgs : update_labels(add, remove)

LabelSpec == LabelInit /\ [][LabelNext]_vars

\* --------------------------------------------------------------- APIProvider
\* payloads: a part that is absent (or None) is <<>>, a part that is there is
\* a one-element tuple; so are the attributes of the provider
Repositories == {<<>>, <<[owner |-> "servo", name |-> "highfive"]>>}
Senders == {<<>>, <<"FooBar">>}
PullRequests ==
    {<<>>,
     <<[url |-> "some url", login |-> "FooBar", state |-> "open",
        updated_at |-> "1970-01-01T00:00:00Z", number |-> 50]>>,
     <<[url |-> "other url", login |-> "foobar", state |-> "closed",
        updated_at |-> "1970-01-02T00:00:00Z", number |-> 51]>>}
Issues ==
    {<<>>,
     <<[login |-> "FooBar", state |-> "open", updated_at |-> "1970-01-01T00:00:00Z",
        number |-> 200, labels |-> {}, pull_request |-> FALSE]>>,
     <<[login |-> "foobar", state |-> "closed", updated_at |-> "1970-01-02T00:00:00Z",
        number |-> 201, labels |-> {"S-Tests-Failed"}, pull_request |-> TRUE]>>}
Comments == {<<>>, <<"r? @foobar">>}

Payloads ==
    {[repository |-> r, sender |-> s, pull_request |-> p, issue |-> i, comment |-> c] :
        r \in Repositories, s \in Senders, p \in PullRequests, i \in Issues,
        c \in Comments}

EmptyPayload ==
    [repository |-> <<>>, sender |-> <<>>, pull_request |-> <<>>, issue |-> <<>>,
     comment |-> <<>>]

\* config.imgur_client_id
ClientIds == {<<>>, <<"foobar">>}

\* lines 29-30: every attribute of DEFAULTS is None
NoAttrs ==
    [is_pull |-> <<>>, pull_url |-> <<>>, is_open |-> <<>>, creator |-> <<>>,
     last_updated |-> <<>>, number |-> <<>>, sender |-> <<>>, owner |-> <<>>,
     repo |-> <<>>, current_label |-> <<>>, assignee |-> <<>>, comment |-> <<>>,
     labels |-> <<>>]

\* lines 32-36
RepositoryAttrs(a, payload) ==
    IF payload.repository # <<>>
      THEN [a EXCEPT !.owner = <<payload.repository[1].owner>>,
                     !.repo = <<payload.repository[1].name>>]
      ELSE a

\* lines 38-39
SenderAttrs(a, payload) ==
    IF payload.sender # <<>>
      THEN [a EXCEPT !.sender = <<to_lower(payload.sender[1])>>]
      ELSE a

\* lines 41-54
SubjectAttrs(a, payload) ==
    IF payload.pull_request # <<>>
      THEN [a EXCEPT !.is_pull = <<TRUE>>,
                     !.pull_url = <<payload.pull_request[1].url>>,
                     !.creator = <<to_lower(payload.pull_request[1].login)>>,
                     !.is_open = <<payload.pull_request[1].state = "open">>,
                     !.last_updated = <<payload.pull_request[1].updated_at>>,
                     !.number = <<payload.pull_request[1].number>>]
      ELSE IF payload.issue # <<>>
        THEN [a EXCEPT !.is_pull = <<FALSE>>,
                       !.creator = <<to_lower(payload.issue[1].login)>>,
                       !.is_open = <<to_lower(payload.issue[1].state) = "open">>,
                       !.last_updated = <<payload.issue[1].updated_at>>,
                       !.number = <<payload.issue[1].number>>,
                       !.labels = <<payload.issue[1].labels>>]
        ELSE a

\* lines 56-61: a comment makes is_pull what the payload's issue says
CommentAttrs(a, payload) ==
    IF payload.comment # <<>>
      THEN [a EXCEPT !.comment = payload.comment,
                     !.is_pull = <<payload.issue # <<>>
                                     /\ payload.issue[1].pull_request>>]
      ELSE a

InitAttrs(payload) ==
    CommentAttrs(SubjectAttrs(SenderAttrs(RepositoryAttrs(NoAttrs, payload), payload),
                              payload), payload)

\* the provider is built over a configuration and a payload
APIProvider(cid, payload) ==
    /\ api' = [api EXCEPT !.built = TRUE,
                          !.imgur_client_id = cid,
                          !.payload = payload,
                          !.attrs = InitAttrs(payload),
                          !.upload = NoUpload]
    /\ UNCHANGED <<now, installations, sync_runners, config, headers, task, cur, pc,
                   frame, round, steps, pre, sent, result, loaded>>

\* what the upload endpoint answers: code, whether the body is JSON, the link
ImgurResponses ==
    { [code |-> 200, json |-> TRUE, link |-> "hello"],
      [code |-> 400, json |-> FALSE, link |-> "none"],
      [code |-> 400, json |-> TRUE, link |-> "none"],
      [code |-> 200, json |-> FALSE, link |-> "none"] }

\* slip of lines 82-84: the body is read without the is_json test
ImgurLinkUnchecked(resp) == IF resp.code # 200 THEN <<>> ELSE <<resp.link>>

\* post_image_to_imgur, lines 78-86: what is returned for a response
ImgurLink(resp) ==
    IF resp.code # 200 THEN <<>>
    ELSE IF ~resp.json THEN <<>>
    ELSE <<resp.link>>

post_image_to_imgur(resp) ==
    /\ api.built
    /\ api' = [api EXCEPT !.upload =
                 IF api.imgur_client_id = <<>>
                   THEN [done |-> TRUE, requests |-> <<>>, resp |-> NoImgurResp,
                         returned |-> <<>>]
                   ELSE [done |-> TRUE,
                         requests |-> <<[method |-> "POST",
                                         url |-> "https://api.imgur.com/3/image",
                                         client_id |-> api.imgur_client_id[1]]>>,
                         resp |-> resp,
                         returned |-> ImgurLink(resp)]]
    /\ UNCHANGED <<now, installations, sync_runners, config, headers, task, cur, pc,
                   frame, round, steps, pre, sent, result, loaded>>

ProviderNext ==
    \/ \E cid \in ClientIds, payload \in Payloads : APIProvider(cid, payload)
    \/ \E resp \in ImgurResponses : post_image_to_imgur(resp)

ProviderSpec == Init /\ [][ProviderNext]_vars

\* ------------------------------------------------------------ check_bors_msg
\* comments as bors-servo and others write them, and the phrases
\* check_bors_msg looks for in each (`phrase in comment`)
BorsComments ==
    {"Commit 1a2b3c has been approved by foobar",
     "Testing commit 1a2b3c with merge 4d5e6f",
     "Test failed - linux2",
     "Please resolve the merge conflicts.",
     "Test successful - linux2",
     "Test failed after Commit 1a2b3c has been approved by foobar"}

Contains(comment, phrase) ==
    CASE phrase = "has been approved by" ->
           comment \in {"Commit 1a2b3c has been approved by foobar",
                        "Test failed after Commit 1a2b3c has been approved by foobar"}
      [] phrase = "Testing commit" ->
           comment = "Testing commit 1a2b3c with merge 4d5e6f"
      [] phrase = "Test failed" ->
           comment \in {"Test failed - linux2",
                        "Test failed after Commit 1a2b3c has been approved by foobar"}
      [] phrase = "Please resolve the merge conflicts" ->
           comment = "Please resolve the merge conflicts."
      [] OTHER -> FALSE

BorsSenders == {"bors-servo", "FooBar"}
BorsActions == {"created", "edited"}

\* the labels an issue may carry when the first comment arrives
BorsLabelNames == {"S-awaiting-merge", "s-awaiting-merge", "s-tests-failed",
                   "S-needs-rebase", "s-needs-rebase", "S-awaiting-review"}

\* slip of line 118: a failed test leaves S-awaiting-merge in place
BorsUpdateKeepsMerge(comment) ==
    IF Contains(comment, "has been approved by") \/ Contains(comment, "Testing commit")
      THEN <<[add |-> {"S-awaiting-merge"},
              remove |-> {"S-awaiting-review", "S-needs-rebase", "S-tests-failed",
                          "S-needs-code-changes", "S-needs-squash",
                          "S-awaiting-answer"}]>>
    ELSE IF Contains(comment, "Test failed")
      THEN <<[add |-> {"S-tests-failed"}, remove |-> {}]>>
    ELSE IF Contains(comment, "Please resolve the merge conflicts")
      THEN <<[add |-> {"S-needs-rebase"}, remove |-> {"S-awaiting-merge"}]>>
    ELSE <<>>

\* lines 111-123: the update_labels call a comment leads to, if any
BorsUpdate(comment) ==
    IF Contains(comment, "has been approved by") \/ Contains(comment, "Testing commit")
      THEN <<[add |-> {"S-awaiting-merge"},
              remove |-> {"S-awaiting-review", "S-needs-rebase", "S-tests-failed",
                          "S-needs-code-changes", "S-needs-squash",
                          "S-awaiting-answer"}]>>
    ELSE IF Contains(comment, "Test failed")
      THEN <<[add |-> {"S-tests-failed"}, remove |-> {"S-awaiting-merge"}]>>
    ELSE IF Contains(comment, "Please resolve the merge conflicts")
      THEN <<[add |-> {"S-needs-rebase"}, remove |-> {"S-awaiting-merge"}]>>
    ELSE <<>>

\* a provider is built over the comment's payload and handed to check_bors_msg
check_bors_msg(sender, action, comment) ==
    /\ api' = [(IF to_lower(sender) # "bors-servo" \/ action # "created"
                     \/ BorsUpdate(comment) = <<>>
                  THEN [api EXCEPT !.calls = <<>>, !.before = api.labels,
                                   !.add = {}, !.remove = {}]
                  ELSE LabelsUpdated(api, BorsUpdate(comment)[1].add,
                                     BorsUpdate(comment)[1].remove))
               EXCEPT !.handled = <<[sender |-> to_lower(sender), action |-> action,
                                     comment |-> comment]>>]
    /\ UNCHANGED <<now, installations, sync_runners, config, headers, task, cur, pc,
                   frame, round, steps, pre, sent, result, loaded>>

\* s-awaiting-merge next to s-tests-failed or s-needs-rebase
MergeConflict(labels) ==
    /\ "s-awaiting-merge" \in labels
    /\ "s-tests-failed" \in labels \/ "s-needs-rebase" \in labels

BorsInit ==
    /\ RunnerInit
    /\ api \in {[NoApi EXCEPT !.labels = ls] :
                  ls \in {l \in SUBSET BorsLabelNames : ~MergeConflict(l)}}

BorsNext ==
    \E sender \in BorsSenders, action \in BorsActions, comment \in BorsComments :
        check_bors_msg(sender, action, comment)

BorsSpec == BorsInit /\ [][BorsNext]_vars

\* wait_time over a quota endpoint that answers with a remaining of 0, 1 or
\* 100 and a reset 100 s ahead
WaitRemaining == {0, 1, 100}
WaitWindows == {100}

WaitNext ==
    \/ \E t \in SeqThreads : StepEnv(t, Insts, WaitRemaining, WaitWindows)
    \/ Tick

WaitSpec == Init /\ [][WaitNext]_vars

\* the synchronisation loop, in its own thread; db is db.get_installations()
SyncStep(t, db) ==
    \/ start_sync(t, db)
    \/ \E i \in Insts : poke(t, i)
    \/ round_end(t)
    \/ round_begin(t)

\* both threads at work on the installations the database knows
ConcInsts == {1}

ConcNext ==
    \/ \E t \in Threads : Step(t, ConcInsts)
    \/ \E t \in Threads : SyncStep(t, ConcInsts)
    \/ Tick

ConcSpec == Init /\ [][ConcNext]_vars


\* ================================================================ claims
InFlight(t) == pc[t] \in {"sync_token", "exchange", "wait_time", "rate_limit",
                          "sleep", "generic"}
Finished(t) == pc[t] \in {"returned", "raised"}
Has(t, name) == \E k \in 1..Len(steps[t]) : steps[t][k] = name
IsPrefix(a, b) == Len(a) <= Len(b) /\ \A k \in 1..Len(a) : a[k] = b[k]
Non2xx(code) == code \notin 200..299

\* C1: every generic call of queue_request carries a token whose expiry is
\* strictly later than the time at which the HTTP call is performed.
C1_TokenFreshAtCall ==
    \A t \in Threads :
        sent[t].kind = "generic" =>
            /\ sent[t].auth.scheme = "token"
            /\ sent[t].auth.token.exp > sent[t].at

\* C2: wait_time never fails with a division error; a remaining of 0 at the
\* moment the wait is computed leads to a re-sync, never to a division by zero.
C2_NoDivisionError ==
    \A t \in Threads : result[t].exc.type # "ZeroDivisionError"

\* the orders in which one queue_request can run its steps
RequestOrders ==
    { <<"token_check", "sign", "exchange", "quota_check", "quota_sync", "wait",
        "decrement", "persist", "http">>,
      <<"token_check", "sign", "exchange", "quota_check", "wait",
        "decrement", "persist", "http">>,
      <<"token_check", "quota_check", "quota_sync", "wait",
        "decrement", "persist", "http">>,
      <<"token_check", "quota_check", "wait", "decrement", "persist", "http">> }

\* C3: queue_request runs its steps in the fixed order token check (with a
\* refresh only if the token had expired), quota check (with a sync only if
\* the window had elapsed), pacing wait, decrement with persist, HTTP call;
\* when the HTTP call is made, remaining is one less than the value the wait
\* was computed from and the persisted record holds the handler's fields.
C3_FixedOrder ==
    \A t \in Threads :
        /\ \E o \in RequestOrders : IsPrefix(steps[t], o)
        /\ Has(t, "sign") => pre[t].next_token_sync <= now
        /\ (steps[t] # <<>> /\ ~Has(t, "sign")) => pre[t].next_token_sync > pre[t].at
        /\ Has(t, "quota_sync") => pre[t].reset_time <= frame[t].now
        /\ (Has(t, "wait") /\ ~Has(t, "quota_sync")) => pre[t].reset_time > frame[t].now
        /\ Has(t, "http") =>
              /\ sent[t].kind = "generic"
              /\ Handler(t).remaining = frame[t].den - 1
              /\ config.ids[cur[t]] = ConfigRecord(Handler(t))

\* C3 witness: a call that refreshed the token, synced the quota, waited,
\* decremented, persisted and got its response
C3_Witness ==
    \E t \in Threads :
        /\ pc[t] = "returned"
        /\ steps[t] = <<"token_check", "sign", "exchange", "quota_check",
                        "quota_sync", "wait", "decrement", "persist", "http">>
        /\ frame[t].wake > frame[t].now


\* the call entered a handler that had not been used since it was created,
\* for an installation without a persisted record
FirstUse(t) == pre[t].first /\ ~loaded[cur[t]].saved.present

\* C4 as stated: on the first use of an installation without persisted state
\* the steps are token exchange, quota fetch, wait, GET, and then the persist
\* of the decremented count.
C4_PersistAfterCall ==
    \A t \in Threads :
        FirstUse(t) =>
            IsPrefix(steps[t], <<"token_check", "sign", "exchange", "quota_check",
                                 "quota_sync", "wait", "http", "decrement", "persist">>)

\* C4 (amended): on the first use of an installation without persisted state
\* (defaults remaining 0, reset 60 s in the past, no token) queue_request
\* exchanges for a token, fetches the quota, waits, decrements and persists,
\* and only then performs the call, each step only if the earlier ones
\* succeeded; the defaults force both the token refresh and the quota sync.
C4_FirstUse ==
    \A t \in Threads :
        FirstUse(t) =>
            /\ pre[t].token = NoToken
            /\ pre[t].remaining = DefaultRemaining
            /\ pre[t].reset_time <= pre[t].at - DefaultResetLag
            /\ IsPrefix(steps[t], <<"token_check", "sign", "exchange", "quota_check",
                                    "quota_sync", "wait", "decrement", "persist", "http">>)
            /\ (pc[t] = "raised" /\ result[t].stage # "token") => Has(t, "quota_sync")
            /\ Has(t, "http") =>
                  /\ config.ids[cur[t]].present
                  /\ config.ids[cur[t]].remaining = frame[t].den - 1
                  /\ config.ids[cur[t]].token = sent[t].auth.token

\* C4 witness: the first call of a new installation got its response after a
\* real wait
C4_Witness ==
    \E t \in Threads :
        /\ FirstUse(t)
        /\ pc[t] = "returned"
        /\ Has(t, "persist")
        /\ frame[t].wake > frame[t].now

C6_ExchangeFailure ==
    \A t \in Threads :
        (sent[t].kind = "exchange" /\ Non2xx(sent[t].code)) =>
            /\ pc[t] = "raised"
            /\ result[t].stage = "token"
            /\ steps[t] = <<"token_check", "sign", "exchange">>
            /\ Handler(t).token = pre[t].token
            /\ Handler(t).next_token_sync = pre[t].next_token_sync
            /\ Handler(t).remaining = pre[t].remaining
            /\ Handler(t).reset_time = pre[t].reset_time
            /\ config.ids[cur[t]] = pre[t].saved

\* C6 witness: the exchange failed for a handler that held an earlier token
C6_Witness ==
    \E t \in Threads :
        /\ pc[t] = "raised"
        /\ sent[t].kind = "exchange"
        /\ sent[t].code = 401
        /\ pre[t].token # NoToken

\* C7: a failed quota fetch aborts the queue_request: no generic call, no
\* decrement, and remaining and reset time keep their values.
C7_QuotaFailure ==
    \A t \in Threads :
        (sent[t].kind = "rate_limit" /\ Non2xx(sent[t].code)) =>
            /\ pc[t] = "raised"
            /\ result[t].stage = "quota"
            /\ ~Has(t, "wait") /\ ~Has(t, "decrement") /\ ~Has(t, "http")
            /\ Handler(t).remaining = pre[t].remaining
            /\ Handler(t).reset_time = pre[t].reset_time
            /\ config.ids[cur[t]] = pre[t].saved

\* C7 witness: the quota fetch failed for a handler with budget left from an
\* earlier window
C7_Witness ==
    \E t \in Threads :
        /\ pc[t] = "raised"
        /\ sent[t].kind = "rate_limit"
        /\ sent[t].code = 500
        /\ pre[t].remaining > 0

\* C8: a handler created for an installation whose state update_config had
\* persisted starts with the persisted token, expiry, remaining and reset
\* time, and its first queue_request does not refresh a token whose persisted
\* expiry is still ahead.
C8_RoundTrip ==
    /\ \A i \in Insts :
          (installations[i].exists /\ loaded[i].saved.present /\ ~loaded[i].used) =>
              /\ installations[i].token = loaded[i].saved.token
              /\ installations[i].next_token_sync =
                     datetime_parse(loaded[i].saved.expires_at)
              /\ installations[i].remaining = loaded[i].saved.remaining
              /\ installations[i].reset_time = loaded[i].saved.reset
    /\ \A t \in Threads :
          (/\ pre[t].first
           /\ loaded[cur[t]].saved.present
           /\ datetime_parse(loaded[cur[t]].saved.expires_at) > now) =>
              ~Has(t, "sign")

\* C9: once a queue_request that changed the handler's token, expiry,
\* remaining or reset time has returned or failed, the persisted record of
\* the installation equals the handler's fields.
C9_PersistedIsCurrent ==
    \A t \in Threads :
        (/\ Finished(t)
         /\ \/ Handler(t).token # pre[t].token
            \/ Handler(t).next_token_sync # pre[t].next_token_sync
            \/ Handler(t).remaining # pre[t].remaining
            \/ Handler(t).reset_time # pre[t].reset_time) =>
            config.ids[cur[t]] = ConfigRecord(Handler(t))

\* C10: no two queue_request executions of one installation are under way at
\* the same time.
C10_OneInFlight ==
    \A t1, t2 \in Threads :
        (t1 # t2 /\ InFlight(t1) /\ InFlight(t2)) => cur[t1] # cur[t2]

\* C11: of two queue_request calls on the same installation, the one that was
\* issued first has its HTTP call performed first: while the earlier call has
\* not reached its HTTP call, the later one has not performed its own.
C11_FIFO ==
    \A t1 \in Threads, t2 \in Threads :
        (t1 \in pre[t2].ahead /\ InFlight(t1)) => sent[t2].kind # "generic"

\* C12: a pacing wait or a failure of a call of one installation never delays
\* or prevents a call for another installation, also when both are poked by
\* the same poke_data: while an installation is still to be poked, the thread
\* is neither asleep in the wait of another installation's call nor has that
\* call's exception ended the operation.
C12_Independent ==
    \A t \in Threads :
        round.poking # {} =>
            /\ ~(task[t] = "poke_post" /\ pc[t] = "sleep" /\ frame[t].wake > now)
            /\ ~(task[t] = "poke_post" /\ pc[t] = "raised")

\* C13: sync_token does nothing while the token is fresh: an invocation that
\* finds the stored expiry in the future sends no request and leaves token,
\* expiry and header as they are; an invocation that finds it passed performs
\* one exchange, after which the expiry is in the future, so that two
\* invocations in succession perform one exchange in total.
C13_FreshTokenKept ==
    [][\A t \in Threads :
          /\ (pc[t] = "sync_token" /\ pc'[t] # "sync_token"
                /\ now < installations[cur[t]].next_token_sync)
               => /\ pc'[t] = "wait_time"
                  /\ installations' = installations
                  /\ sent' = sent
                  /\ headers' = headers
          /\ (pc[t] = "exchange" /\ pc'[t] = "wait_time")
               => /\ installations'[cur[t]].next_token_sync > now
                  /\ sent'[t].kind = "exchange"]_vars

C13_Witness ==
    \E t \in Threads :
        /\ pc[t] = "wait_time"
        /\ steps[t] = <<"token_check">>
        /\ pre[t].token # NoToken
        /\ Handler(t).token = pre[t].token
        /\ Handler(t).next_token_sync = pre[t].next_token_sync

\* C14: the registry is idempotent: when handle_payload or poke_data refer
\* (through set_installation) to an installation already registered, its handler
\* is the one created at the first reference, with its token and its quota
\* fields as they were, and the registry holds one entry per id: the ids with
\* a sync runner are the ids with a handler.
C14_SameHandler ==
    [][/\ \A i \in Insts :
            (/\ installations[i].exists
             /\ \E t \in Threads : task[t] = "none" /\ task'[t] # "none")
               => /\ installations'[i] = installations[i]
                  /\ loaded'[i] = loaded[i]
                  /\ i \in sync_runners'
       /\ sync_runners' = {i \in Insts : installations'[i].exists}]_vars

\* a payload for an installation whose handler already holds a token and whose
\* first call failed before anything was persisted
C14_Witness ==
    \E t \in Threads :
        /\ task[t] = "add"
        /\ pc[t] = "idle"
        /\ Handler(t).token # NoToken
        /\ ~config.ids[cur[t]].present

\* C15: remaining is a non-negative integer in every reachable state, whatever
\* the interleaving of the queue_request calls.
C15_NonNegative ==
    \A i \in Insts : installations[i].exists => installations[i].remaining >= 0

\* a step in which a successful quota fetch of thread t overwrites remaining
\* and reset_time of installation i with the fetched values
QuotaOverwrite(t, i) ==
    /\ cur[t] = i
    /\ pc[t] = "rate_limit"
    /\ sent'[t].kind = "rate_limit" /\ ~Non2xx(sent'[t].code)
    /\ installations'[i].remaining \in RateRemaining
    /\ installations'[i].reset_time \in RateResets(now, RateWindows)

\* a step in which thread t, its sleep over, takes one call off remaining
OneDecrement(t, i) ==
    /\ cur[t] = i
    /\ pc[t] = "sleep" /\ pc'[t] = "generic"
    /\ installations'[i].remaining = installations[i].remaining - 1
    /\ installations'[i].reset_time = installations[i].reset_time

\* C16 as stated: a call that does not complete successfully causes no
\* decrement of remaining.
C16_NoDecrementOnFailure ==
    \A t \in Threads : pc[t] = "raised" => ~Has(t, "decrement")

\* C16: remaining and reset_time of a handler change in two ways only: both
\* are overwritten with the values a successful quota fetch returned, or
\* remaining alone goes down by exactly 1 when a call, its wait over, is about
\* to send its HTTP request; sync_token and _request leave both as they are.
\* A call that fails before its HTTP request causes no decrement; a call whose
\* HTTP request fails has caused one.
C16_QuotaFrame ==
    [][/\ \A i \in Insts :
            (/\ installations[i].exists /\ installations'[i].exists
             /\ \/ installations'[i].remaining # installations[i].remaining
                \/ installations'[i].reset_time # installations[i].reset_time)
               => \E t \in Threads : QuotaOverwrite(t, i) \/ OneDecrement(t, i)
       /\ \A t \in Threads :
            pc'[t] = "raised" =>
               (Has(t, "decrement")' <=> result'[t].stage = "generic")]_vars

\* a call whose HTTP request failed after remaining was decremented
C16_Witness ==
    \E t \in Threads :
        /\ pc[t] = "raised"
        /\ result[t].stage = "generic"
        /\ Has(t, "decrement")
        /\ Handler(t).remaining = frame[t].den - 1

\* C17: wait_time returns (reset_time - now) / remaining, computed from the
\* values in effect after any re-sync: with remaining 1 and a reset 100 s
\* ahead the wait is 100 s, with remaining 100 it is 1 s, and the wait is
\* never negative.
C17_WaitValue ==
    \A t \in Threads :
        pc[t] = "sleep" =>
            /\ frame[t].num = Handler(t).reset_time - frame[t].now
            /\ frame[t].den = Handler(t).remaining
            /\ frame[t].den > 0 /\ frame[t].num >= 0 /\ frame[t].secs >= 0
            /\ frame[t].secs * frame[t].den <= frame[t].num
            /\ frame[t].num < (frame[t].secs + 1) * frame[t].den
            /\ (frame[t].num = 100 /\ frame[t].den = 1) => frame[t].secs = 100
            /\ (frame[t].num = 100 /\ frame[t].den = 100) => frame[t].secs = 1
            /\ Has(t, "quota_sync") =>
                  /\ sent[t].kind = "rate_limit"
                  /\ Handler(t).reset_time = sent[t].at + 100

C17_Witness ==
    \E t \in Threads :
        /\ pc[t] = "sleep"
        /\ Has(t, "quota_sync")
        /\ Handler(t).remaining = 100
        /\ Handler(t).reset_time = frame[t].now + 100
        /\ frame[t].secs = 1

\* C18: start_sync runs for ever: it neither terminates nor fails on its own,
\* every round pokes every installation of the registry, and the sleep between
\* two rounds is non-negative however long the round took.
C18_RunsForever ==
    /\ task["sync"] # "dead"
    /\ task["sync"] = "round_sleep" =>
          /\ round.todo = {}
          /\ round.wake >= now

\* C19: _request decodes the body of a 2xx response: a body declared gzip that
\* holds compressed JSON comes back as the decoded JSON, a body that is JSON
\* comes back decoded, and a body that is neither (a diff) comes back as the
\* raw string, unchanged and without an error.
C19_Decoding ==
    \A t \in Threads :
        (sent[t].kind = "generic" /\ ~Non2xx(sent[t].code)) =>
            /\ pc[t] = "returned"
            /\ result[t].exc = NoErr
            /\ (result[t].resp.encoding = "gzip" /\ result[t].resp.compressed
                  /\ result[t].resp.json)
                 => result[t].value = [type |-> "json", json |-> TRUE,
                                       data |-> result[t].resp.text]
            /\ (~result[t].resp.compressed /\ result[t].resp.json)
                 => result[t].value = [type |-> "json", json |-> TRUE,
                                       data |-> result[t].resp.text]
            /\ (~result[t].resp.compressed /\ ~result[t].resp.json)
                 => result[t].value = [type |-> "str", json |-> FALSE,
                                       data |-> result[t].resp.text]

C19_Witness ==
    \E t \in Threads :
        /\ pc[t] = "returned"
        /\ result[t].resp.encoding = "gzip"
        /\ result[t].resp.compressed
        /\ result[t].value.type = "json"
        /\ result[t].value.data = "ok"

\* C20: update_labels(add, remove) calls get_labels once and then
\* replace_labels once, with exactly the lower-cased current labels and
\* lower-cased add, less the lower-cased remove: every label of the result is
\* lower-case, a label given in both add and remove is absent, and no label
\* from outside current and add appears.
C20_UpdateLabels ==
    api.calls # <<>> =>
        /\ api.calls = <<"get_labels", "replace_labels">>
        /\ \A l \in api.labels : to_lower(l) = l
        /\ \A l \in LabelNames :
              l \in api.labels <=>
                 /\ \E c \in api.before \cup api.add : to_lower(c) = l
                 /\ ~\E r \in api.remove : to_lower(r) = l
        /\ \A l \in api.add \cap api.remove : to_lower(l) \notin api.labels
        /\ \A l \in api.labels : \E c \in api.before \cup api.add : to_lower(c) = l

\* a label spelt in capitals is kept in lower case, and a label that is in
\* both add and remove, spelt in capitals, takes its lower-case form away
C20_Witness ==
    /\ api.calls # <<>>
    /\ "S-Tests-Failed" \in api.before /\ "s-tests-failed" \in api.labels
    /\ "s-needs-rebase" \in api.before /\ "s-needs-rebase" \notin api.labels
    /\ "S-needs-rebase" \in api.add \cap api.remove
    /\ "s-awaiting-review" \in api.before \cap api.labels

\* C21: an APIProvider built over an empty payload has every attribute of
\* DEFAULTS None; over a payload with a pull_request it has is_pull True and
\* pull_url, number, creator, is_open and last_updated from the pull request;
\* over a payload with an issue and no pull_request it has is_pull False,
\* pull_url None, and number, creator, is_open, last_updated and labels from
\* the issue.
C21_InitAttrs ==
    api.built =>
        /\ api.payload = EmptyPayload => api.attrs = NoAttrs
        /\ api.payload.pull_request # <<>> =>
              /\ api.attrs.is_pull = <<TRUE>>
              /\ api.attrs.pull_url = <<api.payload.pull_request[1].url>>
              /\ api.attrs.number = <<api.payload.pull_request[1].number>>
              /\ api.attrs.creator = <<to_lower(api.payload.pull_request[1].login)>>
              /\ api.attrs.is_open = <<api.payload.pull_request[1].state = "open">>
              /\ api.attrs.last_updated = <<api.payload.pull_request[1].updated_at>>
        /\ (api.payload.issue # <<>> /\ api.payload.pull_request = <<>>) =>
              /\ api.attrs.is_pull = <<FALSE>>
              /\ api.attrs.pull_url = <<>>
              /\ api.attrs.number = <<api.payload.issue[1].number>>
              /\ api.attrs.creator = <<to_lower(api.payload.issue[1].login)>>
              /\ api.attrs.is_open = <<api.payload.issue[1].state = "open">>
              /\ api.attrs.last_updated = <<api.payload.issue[1].updated_at>>
              /\ api.attrs.labels = <<api.payload.issue[1].labels>>

\* C22: post_image_to_imgur returns the image link if and only if a client id
\* is configured, the upload is answered with code 200 and the body is JSON;
\* in every other case it returns None, and without a client id it returns
\* None without sending a request.
C22_ImgurUpload ==
    api.upload.done =>
        /\ api.upload.returned # <<>> <=>
              /\ api.imgur_client_id # <<>>
              /\ api.upload.resp.code = 200
              /\ api.upload.resp.json
        /\ api.upload.returned # <<>> => api.upload.returned = <<api.upload.resp.link>>
        /\ api.imgur_client_id = <<>> => api.upload.requests = <<>>
        /\ api.imgur_client_id # <<>> =>
              /\ Len(api.upload.requests) = 1
              /\ api.upload.requests[1].client_id = api.imgur_client_id[1]

\* the upload was answered 200 with a body that is not JSON, and None came back
C22_Witness ==
    /\ api.upload.done
    /\ api.imgur_client_id = <<"foobar">>
    /\ api.upload.resp.code = 200
    /\ ~api.upload.resp.json
    /\ api.upload.returned = <<>>

\* C23: with one caller at a time, the spacing of the calls never uses the
\* quota up early: when a queue_request starts with a remaining of 0, the
\* time is at or past the reset time, so that a re-sync is due.
C23_NoEarlyExhaustion ==
    \A t \in Threads :
        (InFlight(t) /\ pre[t].remaining = 0) => pre[t].at >= pre[t].reset_time

\* C24: handle_payload passes every payload through the sync handlers of its
\* installation: whatever the event and the sender, and whether or not an
\* event handler failed, the installation is registered and SyncHandler.post
\* is invoked once, so handle_payload is over only from its post; event
\* handlers run only for an enabled event not sent by the bot.
C24_PostAlways ==
    [][\A t \in SeqThreads :
          /\ (task[t] = "none" /\ task'[t] \in {"add", "post"})
               => /\ installations'[cur'[t]].exists
                  /\ cur'[t] \in sync_runners'
          /\ (task[t] \in {"add", "post"} /\ task'[t] = "none") => task[t] = "post"]_vars

\* the two installations at work at once: payloads name installation 1, the
\* database knows installation 2, whose sync runner the loop pokes
IsoPayloadInsts == {1}
IsoSyncInsts == {2}
IsoRemaining == {1}

IsoNext ==
    \/ \E t \in Threads : StepEnv(t, IsoPayloadInsts, IsoRemaining, RateWindows)
    \/ \E t \in Threads : start_sync(t, IsoSyncInsts)
    \/ \E t \in Threads, i \in IsoSyncInsts : poke(t, i)
    \/ Tick

IsoSpec == Init /\ [][IsoNext]_vars

\* C25: every request sent for an installation carries the Authorization its
\* own operation set: the signed assertion for the token exchange, the
\* installation's own token for the quota fetch and for the generic call,
\* whatever requests of other installations are interleaved with it.
C25_OwnCredentials ==
    \A t \in Threads :
        /\ sent[t].kind = "exchange" => sent[t].auth.scheme = "Bearer"
        /\ sent[t].kind \in {"rate_limit", "generic"} =>
              /\ sent[t].auth.scheme = "token"
              /\ sent[t].auth.token.inst = sent[t].inst

\* C26: check_bors_msg keeps the labels consistent: from a label set without
\* s-awaiting-merge next to s-tests-failed or s-needs-rebase, no sequence of
\* comments leads to a set that has s-awaiting-merge next to either, and a
\* comment of another sender or with another action leaves the labels as
\* they are.
C26_BorsLabels ==
    /\ ~MergeConflict(api.labels)
    /\ api.handled # <<>> =>
          /\ (api.handled[1].sender # "bors-servo" \/ api.handled[1].action # "created")
                => (api.labels = api.before /\ api.calls = <<>>)
          /\ api.calls # <<>> =>
                /\ api.handled[1].sender = "bors-servo"
                /\ api.handled[1].action = "created"
                /\ ~MergeConflict({to_lower(l) : l \in api.labels})

\* a failed test reported by bors-servo took s-awaiting-merge away
C26_Witness ==
    /\ api.handled # <<>>
    /\ api.handled[1].sender = "bors-servo" /\ api.handled[1].action = "created"
    /\ Contains(api.handled[1].comment, "Test failed")
    /\ "S-awaiting-merge" \in api.before
    /\ api.labels = {"s-tests-failed"}

====
